---- MODULE Spec2Model ----
(***************************************************************************)
(* Model of @saidsef/tracing-node: the setupTracing / stopTracing          *)
(* lifecycle around the module-scope tracerProvider singleton, the         *)
(* instrumentation adapters that setupTracing registers, and the request   *)
(* hooks handed to them.                                                   *)
(*                                                                         *)
(* The OpenTelemetry SDK objects (exporter, batch span processor, tracer   *)
(* provider) are modelled by the part of their behaviour the wrapper       *)
(* relies on: a provider buffers ended spans while it is active, its       *)
(* shutdown() flushes the buffer and settles once, and spans ended after   *)
(* shutdown() was invoked are dropped.                                     *)
(***************************************************************************)
EXTENDS Integers, Sequences, FiniteSets, TLC

\* ------------------------------------------------------------------ bounds
MaxProviders == 2   \* providers constructed in one behaviour
MaxStops == 2       \* stopTracing invocations in one behaviour
MaxSpans == 1       \* spans ended in one behaviour
MaxArgs == 2        \* arguments of one Redis command

\* ------------------------------------------------------------ JS values
Undefined == "undefined"     \* a missing option / unset environment variable
Null == 0                    \* let tracerProvider = null
NullTracer == [provider |-> Null, name |-> Undefined]

\* libs/index.js: appName="application"
DefaultAppName == "application"
\* libs/index.js: endpoint=null
NullEndpoint == "null"

\* options.concurrencyLimit: absent, or a value given by its String() form
NoLimit == [defined |-> FALSE, text |-> <<>>]
Limit(text) == [defined |-> TRUE, text |-> text]
\* concurrencyLimit = 10
DefaultConcurrencyLimit == <<"1", "0">>

Digits == <<"0", "1", "2", "3", "4", "5", "6", "7", "8", "9">>
IsDigit(c) == \E i \in 1..10 : Digits[i] = c
DigitVal(c) == (CHOOSE i \in 1..10 : Digits[i] = c) - 1
IsSpace(c) == c = " "

NaN == [nan |-> TRUE, n |-> 0]
Num(n) == [nan |-> FALSE, n |-> n]

RECURSIVE SkipSpaces(_)
SkipSpaces(s) ==
    IF s # <<>> /\ IsSpace(Head(s)) THEN SkipSpaces(Tail(s)) ELSE s

RECURSIVE DigitPrefix(_)
DigitPrefix(s) ==
    IF s # <<>> /\ IsDigit(Head(s)) THEN <<Head(s)>> \o DigitPrefix(Tail(s))
    ELSE <<>>

RECURSIVE DecimalValue(_)
DecimalValue(ds) ==
    IF ds = <<>> THEN 0
    ELSE 10 * DecimalValue(SubSeq(ds, 1, Len(ds) - 1)) + DigitVal(ds[Len(ds)])

\* parseInt(text, 10): leading blanks, an optional sign, then the longest
\* run of decimal digits; NaN when that run is empty
parseInt(text) ==
    LET t == SkipSpaces(text)
        neg == t # <<>> /\ Head(t) = "-"
        body == IF t # <<>> /\ Head(t) \in {"-", "+"} THEN Tail(t) ELSE t
        ds == DigitPrefix(body)
    IN  IF ds = <<>> THEN NaN
        ELSE Num(IF neg THEN 0 - DecimalValue(ds) ELSE DecimalValue(ds))

\* a || b
OrElse(a, b) == IF a = Undefined \/ a = "" THEN b ELSE a

\* destructuring default: used only when the property is undefined
Default(v, d) == IF v = Undefined THEN d ELSE v

VARIABLES
    env,             \* process.env
    tracerProvider,  \* module-scope singleton: Null or a provider id
    providers,       \* every NodeTracerProvider constructed so far
    registered,      \* adapters enabled by registerInstrumentations
    spans,           \* spans ended by the application
    calls,           \* stopTracing invocations
    lastSetup,       \* the most recent setupTracing(options) call
    lastInvoked,     \* the most recently invoked lifecycle operation
    legacy,          \* the most recent positional setupTracing call
    lastRequest,     \* the most recent inbound request seen by an adapter
    probe            \* a hook or helper invocation: its arguments and result

vars == <<env, tracerProvider, providers, registered, spans, calls,
          lastSetup, lastInvoked, legacy, lastRequest, probe>>

\* ------------------------------------------------------------ input sets
ServiceNames == {Undefined, "checkout"}
WellFormedUrls == {"http://localhost:4317", "http://collector:4317"}
MalformedUrls == {"http://[bad"}
OptionUrls == {Undefined, "http://localhost:4317", "http://[bad"}

EnvSet ==
    [SERVICE_NAME : {Undefined, "env-service"},
     ENDPOINT : {Undefined, "http://collector:4317"},
     CONTAINER_NAME : {Undefined},
     HOSTNAME : {Undefined},
     OTEL_SERVICE_NAME : {Undefined}]

\* options of the lifecycle runs: a valid config, and one whose url the
\* exporter may reject
LifecycleOptions ==
    [hostname : {Undefined},
     serviceName : {"checkout"},
     url : {"http://localhost:4317", "http://[bad"},
     concurrencyLimit : {NoLimit},
     enableFsInstrumentation : {Undefined},
     enableDnsInstrumentation : {Undefined}]

\* options of the configuration runs: each required field given or omitted
SetupOptions ==
    [hostname : {Undefined},
     serviceName : ServiceNames,
     url : OptionUrls,
     concurrencyLimit : {NoLimit},
     enableFsInstrumentation : {Undefined},
     enableDnsInstrumentation : {Undefined}]

\* environments of the configuration runs
ConfigEnvSet ==
    [SERVICE_NAME : {Undefined, "env-service"},
     ENDPOINT : {Undefined, "http://collector:4317"},
     CONTAINER_NAME : {Undefined, "", "pod-1"},
     HOSTNAME : {Undefined, "node-7"},
     OTEL_SERVICE_NAME : {Undefined, "otel-service"}]

\* values passed as options.concurrencyLimit
ConcurrencyLimits ==
    {Limit(<<"1">>), Limit(<<"2", "0">>), Limit(<<"1", "0", "0">>),
     Limit(<<"0">>), Limit(<<"1", "0", "1">>), Limit(<<"1", "0", "0", "0">>),
     Limit(<<"-", "5">>), Limit(<<"a", "b", "c">>), Limit(<<"1", "0", "p", "x">>),
     Limit(<<" ", "4", "2">>), Limit(<<>>)}

\* options of the configuration runs: the three inputs, then the
\* concurrency limit, then the two flags, each varied over a valid config
ConfigOptions ==
    [hostname : {Undefined, "", "custom-host"},
     serviceName : ServiceNames,
     url : OptionUrls,
     concurrencyLimit : {NoLimit},
     enableFsInstrumentation : {Undefined},
     enableDnsInstrumentation : {Undefined}]
    \cup
    [hostname : {Undefined},
     serviceName : {"checkout"},
     url : {"http://localhost:4317"},
     concurrencyLimit : ConcurrencyLimits,
     enableFsInstrumentation : {Undefined},
     enableDnsInstrumentation : {Undefined}]
    \cup
    [hostname : {Undefined},
     serviceName : {"checkout"},
     url : {"http://localhost:4317"},
     concurrencyLimit : {NoLimit},
     enableFsInstrumentation : {Undefined, "true", "false"},
     enableDnsInstrumentation : {Undefined, "true", "false"}]

\* a resolution that consults the environment before the options
ResolveEnvFirst(options, e) ==
    [hostname |-> Default(OrElse(e.CONTAINER_NAME, e.HOSTNAME), options.hostname),
     serviceName |-> Default(e.SERVICE_NAME, options.serviceName),
     url |-> Default(e.ENDPOINT, options.url),
     concurrencyLimit |-> IF options.concurrencyLimit.defined
                          THEN options.concurrencyLimit.text
                          ELSE DefaultConcurrencyLimit,
     enableFsInstrumentation |-> Default(options.enableFsInstrumentation, "false"),
     enableDnsInstrumentation |-> Default(options.enableDnsInstrumentation, "false")]

\* --------------------------------------------------------- setupTracing
\* const {hostname = ..., serviceName = ..., url = ..., ...} = options
Resolve(options, e) ==
    [hostname |-> Default(options.hostname, OrElse(e.CONTAINER_NAME, e.HOSTNAME)),
     serviceName |-> Default(options.serviceName, e.SERVICE_NAME),
     url |-> Default(options.url, e.ENDPOINT),
     concurrencyLimit |-> IF options.concurrencyLimit.defined
                          THEN options.concurrencyLimit.text
                          ELSE DefaultConcurrencyLimit,
     enableFsInstrumentation |-> Default(options.enableFsInstrumentation, "false"),
     enableDnsInstrumentation |-> Default(options.enableDnsInstrumentation, "false")]

\* const exportOptions = {concurrencyLimit: parseInt(concurrencyLimit, 10),
\*                        url: url, timeoutMillis: 1000}
ExportOptions(cfg) ==
    [concurrencyLimit |-> parseInt(cfg.concurrencyLimit),
     url |-> cfg.url,
     timeoutMillis |-> 1000]

\* new OTLPTraceExporter(exportOptions): the gRPC exporter parses the url
\* it is given; whether a malformed one makes the constructor throw is the
\* library's choice, an absent or well-formed one never does.
ExporterMayThrow(exportOptions) == exportOptions.url \in MalformedUrls

\* new NodeTracerProvider({spanProcessors: [spanProcessor], resource: ...})
NewProvider(cfg) ==
    [state |-> "active", shutdownCalls |-> 0, outcome |-> "pending"]

\* a setupTracing that keeps a provider it already has
KeepExistingSingleton(old, built) == IF old # Null THEN old ELSE built

\* tracerProvider = new NodeTracerProvider(...)
NextSingleton(old, built) == built

\* const instrumentations = [...]; the two optional pushes
Adapter(kind, hook, p) == [kind |-> kind, ignoreHook |-> hook, provider |-> p]

\* the list of an older module variant, where the DNS adapter is always on
InstrumentationsAlwaysDns(cfg, p) ==
    <<Adapter("http", "ignoreIncomingRequestHook", p),
      Adapter("express", "ignoreIncomingRequestHook", p),
      Adapter("pino", "none", p),
      Adapter("connect", "ignoreIncomingRequestHook", p),
      Adapter("aws-sdk", "none", p),
      Adapter("ioredis", "none", p),
      Adapter("elasticsearch", "none", p)>>
    \o (IF cfg.enableFsInstrumentation = "true"
          THEN <<Adapter("fs", "none", p)>> ELSE <<>>)
    \o <<Adapter("dns", "none", p)>>

Instrumentations(cfg, p) ==
    <<Adapter("http", "ignoreIncomingRequestHook", p),
      Adapter("express", "ignoreIncomingRequestHook", p),
      Adapter("pino", "none", p),
      Adapter("connect", "ignoreIncomingRequestHook", p),
      Adapter("aws-sdk", "none", p),
      Adapter("ioredis", "none", p),
      Adapter("elasticsearch", "none", p)>>
    \o (IF cfg.enableFsInstrumentation = "true"
          THEN <<Adapter("fs", "none", p)>> ELSE <<>>)
    \o (IF cfg.enableDnsInstrumentation = "true"
          THEN <<Adapter("dns", "none", p)>> ELSE <<>>)

\* resourceFromAttributes({[ATTR_SERVICE_NAME]: serviceName,
\*                         [ATTR_CONTAINER_NAME]: hostname})
ExplicitResource(cfg) ==
    ("service.name" :> cfg.serviceName) @@ ("container.name" :> cfg.hostname)

NoAttributes == [k \in {} |-> Undefined]

\* span.setAttribute(key, value)
setAttribute(attributes, key, value) == (key :> value) @@ attributes

\* detectResources({detectors: [envDetector, hostDetector, ...]}): the host
\* and runtime attributes, and service.name when OTEL_SERVICE_NAME is set
DetectedResource(e) ==
    ("host.name" :> "detected-host") @@ ("process.runtime.name" :> "nodejs")
    @@ (IF e.OTEL_SERVICE_NAME # Undefined
        THEN ("service.name" :> e.OTEL_SERVICE_NAME) ELSE NoAttributes)

\* resource.merge(other): the union of the attributes; on a key both carry,
\* the SDK keeps the value of other
ResourceMerge(resource, other) ==
    [k \in (DOMAIN resource) \cup (DOMAIN other) |->
        IF k \in DOMAIN other THEN other[k] ELSE resource[k]]

\* resource: resourceFromAttributes({...}).merge(detectResources({...}))
BuildResource(cfg, e) == ResourceMerge(ExplicitResource(cfg), DetectedResource(e))

\* a setupTracing whose return statement is missing
ReturnNothing(p, serviceName) == NullTracer

\* return tracerProvider.getTracer(serviceName)
SetupReturn(p, serviceName) == [provider |-> p, name |-> serviceName]

NoOptions ==
    [hostname |-> Undefined, serviceName |-> Undefined, url |-> Undefined,
     concurrencyLimit |-> NoLimit, enableFsInstrumentation |-> Undefined,
     enableDnsInstrumentation |-> Undefined]

NoEnv ==
    [SERVICE_NAME |-> Undefined, ENDPOINT |-> Undefined,
     CONTAINER_NAME |-> Undefined, HOSTNAME |-> Undefined,
     OTEL_SERVICE_NAME |-> Undefined]

NoSetup ==
    [called |-> FALSE, options |-> NoOptions,
     config |-> Resolve(NoOptions, NoEnv),
     exportOptions |-> ExportOptions(Resolve(NoOptions, NoEnv)),
     resource |-> NoAttributes, instrumentations |-> <<>>,
     threw |-> FALSE, failedAt |-> "none",
     tracer |-> NullTracer, before |-> Null, after |-> Null]

\* setupTracing(options) when the exporter constructor throws: nothing after
\* line 80 runs.
setupTracingThrows(options) ==
    LET cfg == Resolve(options, env) IN
    /\ ExporterMayThrow(ExportOptions(cfg))
    /\ lastSetup' = [called |-> TRUE, options |-> options, config |-> cfg,
                     exportOptions |-> ExportOptions(cfg),
                     resource |-> NoAttributes, instrumentations |-> <<>>,
                     threw |-> TRUE, failedAt |-> "exporter",
                     tracer |-> NullTracer, before |-> tracerProvider,
                     after |-> tracerProvider]
    /\ lastInvoked' = [op |-> "setup", call |-> 0]
    /\ UNCHANGED <<env, probe, tracerProvider, providers, registered, spans, calls,
                   legacy, lastRequest>>

\* the statements of setupTracing after the exporter is built, in order:
\* the provider constructor whose result line 83 assigns, register() of
\* lines 97-105, and the instrumentation constructors with
\* registerInstrumentations of lines 170-431
LateSteps == {"provider", "register", "instrumentations"}

\* how many of the at most nine adapters are enabled when
\* registerInstrumentations throws
AdapterCounts == 0..8

\* the singleton when the given step throws: the assignment of line 83
\* has run unless the provider constructor itself threw
SingletonAtFailure(step, old, built) ==
    IF step = "provider" THEN old ELSE NextSingleton(old, built)

\* setupTracing(options) when a library call after the exporter throws:
\* no try/catch surrounds it, so what ran before the throw stays done. n is
\* the number of adapters registerInstrumentations enabled before throwing.
setupTracingFailsAt(options, step, n) ==
    LET cfg == Resolve(options, env)
        p == Len(providers) + 1
        list == Instrumentations(cfg, p)
    IN
    /\ Len(providers) < MaxProviders
    /\ ~ExporterMayThrow(ExportOptions(cfg))
    /\ step \in LateSteps
    /\ n \in 0..(Len(list) - 1)
    /\ step # "instrumentations" => n = 0
    /\ providers' = IF step = "provider" THEN providers
                    ELSE Append(providers, NewProvider(cfg))
    /\ tracerProvider' = SingletonAtFailure(step, tracerProvider, p)
    /\ registered' = registered \o SubSeq(list, 1, n)
    /\ lastSetup' = [called |-> TRUE, options |-> options, config |-> cfg,
                     exportOptions |-> ExportOptions(cfg),
                     resource |-> IF step = "provider" THEN NoAttributes
                                  ELSE BuildResource(cfg, env),
                     instrumentations |-> SubSeq(list, 1, n),
                     threw |-> TRUE, failedAt |-> step,
                     tracer |-> NullTracer, before |-> tracerProvider,
                     after |-> tracerProvider']
    /\ lastInvoked' = [op |-> "setup", call |-> 0]
    /\ UNCHANGED <<env, probe, spans, calls, legacy, lastRequest>>

\* setupTracing(options) running to its return statement.
setupTracing(options) ==
    LET cfg == Resolve(options, env)
        p == Len(providers) + 1
    IN
    /\ Len(providers) < MaxProviders
    /\ providers' = Append(providers, NewProvider(cfg))
    /\ tracerProvider' = NextSingleton(tracerProvider, p)
    /\ registered' = registered \o Instrumentations(cfg, tracerProvider')
    /\ lastSetup' = [called |-> TRUE, options |-> options, config |-> cfg,
                     exportOptions |-> ExportOptions(cfg),
                     resource |-> BuildResource(cfg, env),
                     instrumentations |-> Instrumentations(cfg, tracerProvider'),
                     threw |-> FALSE, failedAt |-> "none",
                     tracer |-> SetupReturn(tracerProvider', cfg.serviceName),
                     before |-> tracerProvider, after |-> tracerProvider']
    /\ lastInvoked' = [op |-> "setup", call |-> 0]
    /\ UNCHANGED <<env, probe, spans, calls, legacy, lastRequest>>

\* ------------------------------------------- libs/index.js (positional API)
\* a provider held only in a local variable of the call
LocalProvider == -1

NoLegacy ==
    [called |-> FALSE, serviceName |-> Undefined, appName |-> DefaultAppName,
     endpoint |-> Undefined, constructed |-> <<>>,
     exportOptions |-> [serviceName |-> Undefined, url |-> NullEndpoint],
     providersBuilt |-> 0, processorsBuilt |-> 0, exportersBuilt |-> 0,
     tracer |-> NullTracer]

\* an exporter configured from the environment when no endpoint is passed
PositionalExportOptionsFromEnv(serviceName, endpoint, e) ==
    [serviceName |-> serviceName,
     url |-> Default(endpoint, Default(e.ENDPOINT, NullEndpoint))]

\* const exportOptions = {serviceName: serviceName, url: endpoint}, with
\* endpoint=null when the argument is not given; process.env is not read
PositionalExportOptions(serviceName, endpoint, e) ==
    [serviceName |-> serviceName,
     url |-> Default(endpoint, NullEndpoint)]

\* the constructors one call runs, in the order it runs them
PositionalConstructions ==
    <<"Resource", "NodeTracerProvider", "OTLPTraceExporter", "BatchSpanProcessor",
      "ExpressInstrumentation", "HttpInstrumentation", "AwsInstrumentation",
      "PinoInstrumentation", "JaegerPropagator">>

\* function setupTracing(serviceName, appName="application", endpoint=null)
setupTracingPositional(serviceName, appName, endpoint) ==
    /\ legacy' = [called |-> TRUE,
                  serviceName |-> serviceName,
                  appName |-> Default(appName, DefaultAppName),
                  endpoint |-> endpoint,
                  constructed |-> PositionalConstructions,
                  exportOptions |-> PositionalExportOptions(serviceName, endpoint, env),
                  providersBuilt |-> 1, processorsBuilt |-> 1,
                  exportersBuilt |-> 1,
                  tracer |-> SetupReturn(LocalProvider, serviceName)]
    /\ UNCHANGED <<env, probe, tracerProvider, providers, registered, spans, calls,
                   lastSetup, lastInvoked, lastRequest>>

\* ----------------------------------------------------------------- spans
\* span.end() on a tracer obtained from provider p: the batch span processor
\* buffers it, or drops it once shutdown() has been invoked
EndSpan(p) ==
    /\ Len(spans) < MaxSpans
    /\ spans' = Append(spans,
                  [prov |-> p,
                   status |-> IF providers[p].state = "active"
                              THEN "buffered" ELSE "dropped"])
    /\ UNCHANGED <<env, probe, tracerProvider, providers, registered, calls,
                   lastSetup, lastInvoked, legacy, lastRequest>>

Flush(ss, p) ==
    [i \in 1..Len(ss) |->
        IF ss[i].prov = p /\ ss[i].status = "buffered"
        THEN [ss[i] EXCEPT !.status = "attempted"] ELSE ss[i]]

\* the batch span processor's scheduled export of provider p's buffer
TimerExport(p) ==
    /\ providers[p].state = "active"
    /\ \E i \in 1..Len(spans) : spans[i].prov = p /\ spans[i].status = "buffered"
    /\ spans' = Flush(spans, p)
    /\ UNCHANGED <<env, probe, tracerProvider, providers, registered, calls,
                   lastSetup, lastInvoked, legacy, lastRequest>>

\* ----------------------------------------------------------- stopTracing
\* if (tracerProvider)
ProviderIsSet(tp) == tp # Null

\* a stopTracing that shuts down the first provider ever built
ShutdownFirstBuilt(tp) == IF tp = Null THEN tp ELSE 1

\* the object whose shutdown() stopTracing invokes
ShutdownTarget(tp) == tp

\* a stopTracing that does not await the shutdown promise
ResumeAtOnce(outcome) == TRUE

\* await tracerProvider.shutdown(): the function resumes once the promise
\* has settled
CanResume(outcome) == outcome # "pending"

\* a stopTracing that treats a missing provider as an error
RejectWhenUninitialized(path, outcome) ==
    IF path = "noProvider" THEN "rejected" ELSE "resolved"

\* try { await ...; console.info } catch (error) { console.error }; the
\* else branch console.warn: every path falls off the end of the function
StopResult(path, outcome) == "resolved"

StopLog(path, outcome) ==
    IF path = "noProvider" THEN "warn"
    ELSE IF outcome = "ok" THEN "info" ELSE "error"

\* a stopTracing that resets the singleton when it returns
ClearSingletonAfterStop(tp) == Null

\* the singleton when stopTracing returns: no statement of it assigns it
SingletonAfterStop(tp) == tp

\* a stopTracing that also disables the adapters of the provider it stops
DisableAdaptersOf(adapters, p) == SelectSeq(adapters, LAMBDA a : a.provider # p)

\* the registered adapters when stopTracing runs: it calls nothing but
\* tracerProvider.shutdown() and the console
AdaptersAfterStop(adapters, p) == adapters

EndedSpans == 1..Len(spans)

PrevStop ==
    IF lastInvoked.op = "stop" /\ calls[lastInvoked.call].pc = "done"
    THEN lastInvoked.call ELSE 0

\* stopTracing() taking the else branch: runs to completion in one step
stopTracingNoProvider ==
    /\ Len(calls) < MaxStops
    /\ ~ProviderIsSet(tracerProvider)
    /\ tracerProvider' = SingletonAfterStop(tracerProvider)
    /\ calls' = Append(calls,
            [pc |-> "done", path |-> "noProvider", prov |-> Null,
             result |-> StopResult("noProvider", "pending"),
             log |-> StopLog("noProvider", "pending"),
             endedBefore |-> EndedSpans, everSetup |-> lastSetup.called,
             prev |-> PrevStop,
             before |-> tracerProvider, after |-> tracerProvider'])
    /\ lastInvoked' = [op |-> "stop", call |-> Len(calls) + 1]
    /\ registered' = AdaptersAfterStop(registered, Null)
    /\ UNCHANGED <<env, probe, providers, spans, lastSetup, legacy, lastRequest>>

\* stopTracing() up to its await: invokes shutdown() on the singleton
stopTracingBegin ==
    LET p == ShutdownTarget(tracerProvider) IN
    /\ Len(calls) < MaxStops
    /\ ProviderIsSet(tracerProvider)
    /\ providers' = [providers EXCEPT
            ![p].shutdownCalls = @ + 1,
            ![p].state = IF @ = "active" THEN "shuttingDown" ELSE @]
    /\ calls' = Append(calls,
            [pc |-> "await", path |-> "shutdown", prov |-> p,
             result |-> "pending", log |-> "none",
             endedBefore |-> EndedSpans, everSetup |-> lastSetup.called,
             prev |-> PrevStop,
             before |-> tracerProvider, after |-> Null])
    /\ lastInvoked' = [op |-> "stop", call |-> Len(calls) + 1]
    /\ registered' = AdaptersAfterStop(registered, p)
    /\ UNCHANGED <<env, probe, tracerProvider, spans, lastSetup, legacy, lastRequest>>

\* provider p's shutdown() settles: the processor has flushed its buffer to
\* the exporter and the promise resolves (ok) or rejects
ShutdownSettle(p, ok) ==
    /\ providers[p].state = "shuttingDown"
    /\ providers' = [providers EXCEPT
            ![p].state = "shutdown",
            ![p].outcome = IF ok THEN "ok" ELSE "failed"]
    /\ spans' = Flush(spans, p)
    /\ UNCHANGED <<env, probe, tracerProvider, registered, calls, lastSetup,
                   lastInvoked, legacy, lastRequest>>

\* stopTracing() after its await: logs and returns
stopTracingResume(c) ==
    LET outcome == providers[calls[c].prov].outcome IN
    /\ calls[c].pc = "await"
    /\ CanResume(outcome)
    /\ tracerProvider' = SingletonAfterStop(tracerProvider)
    /\ calls' = [calls EXCEPT
            ![c].pc = "done",
            ![c].result = StopResult("shutdown", outcome),
            ![c].log = StopLog("shutdown", outcome),
            ![c].after = tracerProvider']
    /\ registered' = AdaptersAfterStop(registered, calls[c].prov)
    /\ UNCHANGED <<env, probe, providers, spans, lastSetup, lastInvoked, legacy,
                   lastRequest>>

\* ------------------------------------------------ inbound request hooks
\* strings are sequences of one-character strings
StartsWith(s, prefix) ==
    Len(s) >= Len(prefix) /\ SubSeq(s, 1, Len(prefix)) = prefix

Includes(s, sub) ==
    \E i \in 0..(Len(s) - Len(sub)) : SubSeq(s, i + 1, i + Len(sub)) = sub

METRICS == <<"/", "m", "e", "t", "r", "i", "c", "s">>
HEALTHZ == <<"/", "h", "e", "a", "l", "t", "h", "z">>

\* a hook that matches the two paths anywhere in the url
SubstringIgnoreHook(url) ==
    Includes(url, METRICS) \/ Includes(url, HEALTHZ)

\* req.url.startsWith('/metrics') || req.url.startsWith('/healthz')
ignoreIncomingRequestHook(url) ==
    StartsWith(url, METRICS) \/ StartsWith(url, HEALTHZ)

UrlHeads ==
    {<<>>, METRICS, HEALTHZ, <<"/">>, <<"/", "a", "p", "i">>,
     <<"/", "h", "e", "a", "l", "t", "h">>}
UrlMiddles ==
    {<<>>, METRICS, HEALTHZ, <<"z">>, <<"/", "l", "i", "v", "e">>}
UrlTails ==
    {<<>>, HEALTHZ, <<"/", "l", "i", "v", "e">>, <<"?", "q">>}

\* request urls: a head, a middle and a tail piece in a row
RequestUrls == {a \o b \o c : a \in UrlHeads, b \in UrlMiddles, c \in UrlTails}

NoRequest == [seen |-> FALSE, kind |-> "none", url |-> <<>>, ignored |-> FALSE]

\* an inbound request reaches registered adapter a, which consults the
\* ignore hook it was configured with
IncomingRequest(a, url) ==
    /\ lastRequest' =
         [seen |-> TRUE, kind |-> registered[a].kind, url |-> url,
          ignored |-> IF registered[a].ignoreHook = "ignoreIncomingRequestHook"
                      THEN ignoreIncomingRequestHook(url) ELSE FALSE]
    /\ UNCHANGED <<env, probe, tracerProvider, providers, registered, spans, calls,
                   lastSetup, lastInvoked, legacy>>

\* ------------------------------------------------- peer-service inference
NoProbe == [fn |-> "none", args |-> <<>>, done |-> FALSE, out |-> <<>>]

UpperCase == <<"A", "B", "C", "D", "E", "F", "G", "H", "I", "J", "K", "L", "M", "N", "O", "P", "Q", "R", "S", "T", "U", "V", "W", "X", "Y", "Z">>
LowerCase == <<"a", "b", "c", "d", "e", "f", "g", "h", "i", "j", "k", "l", "m", "n", "o", "p", "q", "r", "s", "t", "u", "v", "w", "x", "y", "z">>

\* String.prototype.toLowerCase
toLowerCase(s) ==
    [i \in 1..Len(s) |->
        IF \E k \in 1..26 : UpperCase[k] = s[i]
        THEN LowerCase[CHOOSE k \in 1..26 : UpperCase[k] = s[i]]
        ELSE s[i]]

\* s.split('.')[0]
RECURSIVE FirstDotSegment(_)
FirstDotSegment(s) ==
    IF s = <<>> \/ Head(s) = "." THEN <<>>
    ELSE <<Head(s)>> \o FirstDotSegment(Tail(s))

\* s.substring(n)
Substring(s, n) == SubSeq(s, n + 1, Len(s))

ELASTICSEARCH == <<"e", "l", "a", "s", "t", "i", "c", "s", "e", "a", "r", "c", "h">>
REDIS == <<"r", "e", "d", "i", "s">>
PORT9200 == <<":", "9", "2", "0", "0">>
PORT6379 == <<":", "6", "3", "7", "9">>
DOTSVC == <<".", "s", "v", "c">>
WWWDOT == <<"w", "w", "w", ".">>
UNKNOWN == <<"u", "n", "k", "n", "o", "w", "n">>

\* lowerHostname.includes('elasticsearch') || lowerUrl.includes('elasticsearch')
\*   || lowerHostname.includes(':9200') || lowerUrl.includes(':9200')
MatchesElasticsearch(lowerHostname, lowerUrl) ==
    \/ Includes(lowerHostname, ELASTICSEARCH) \/ Includes(lowerUrl, ELASTICSEARCH)
    \/ Includes(lowerHostname, PORT9200) \/ Includes(lowerUrl, PORT9200)

\* a redis test that forgets the port
MatchesRedisByName(lowerHostname, lowerUrl) ==
    Includes(lowerHostname, REDIS) \/ Includes(lowerUrl, REDIS)

\* lowerHostname.includes('redis') || lowerUrl.includes('redis')
\*   || lowerHostname.includes(':6379') || lowerUrl.includes(':6379')
MatchesRedis(lowerHostname, lowerUrl) ==
    \/ Includes(lowerHostname, REDIS) \/ Includes(lowerUrl, REDIS)
    \/ Includes(lowerHostname, PORT6379) \/ Includes(lowerUrl, PORT6379)

\* a fallback that returns the lower-cased copy
LowerCasedFallback(hostname, lowerHostname) ==
    IF lowerHostname # <<>> THEN lowerHostname ELSE UNKNOWN

\* return hostname || 'unknown'
PeerFallback(hostname, lowerHostname) ==
    IF hostname # <<>> THEN hostname ELSE UNKNOWN

\* a hostname tested as it was passed
HostnameAsPassed(hostname) == hostname

\* const lowerHostname = hostname.toLowerCase()
LowerHostname(hostname) == toLowerCase(hostname)

\* the two service tests without early return, so the later one wins
LastMatchWins(hostname, url) ==
    LET lowerHostname == LowerHostname(hostname)
        lowerUrl == toLowerCase(url)
    IN  IF MatchesRedis(lowerHostname, lowerUrl) THEN REDIS
        ELSE IF MatchesElasticsearch(lowerHostname, lowerUrl) THEN ELASTICSEARCH
        ELSE IF Includes(lowerHostname, DOTSVC) THEN FirstDotSegment(lowerHostname)
        ELSE IF StartsWith(lowerHostname, WWWDOT) THEN Substring(lowerHostname, 4)
        ELSE PeerFallback(hostname, lowerHostname)

\* const getPeerServiceName = (hostname, url = '') => ...
getPeerServiceName(hostname, url) ==
    LET lowerHostname == LowerHostname(hostname)
        lowerUrl == toLowerCase(url)
    IN  IF MatchesElasticsearch(lowerHostname, lowerUrl) THEN ELASTICSEARCH
        ELSE IF MatchesRedis(lowerHostname, lowerUrl) THEN REDIS
        ELSE IF Includes(lowerHostname, DOTSVC) THEN FirstDotSegment(lowerHostname)
        ELSE IF StartsWith(lowerHostname, WWWDOT) THEN Substring(lowerHostname, 4)
        ELSE PeerFallback(hostname, lowerHostname)

HostPieces ==
    {<<>>, <<"s", "e", "a", "r", "c", "h", ".">>,
     <<"e", "l", "a", "s", "t", "i", "c", "s", "e", "a", "r", "c", "h">>,
     <<"E", "l", "a", "s", "t", "i", "c", "S", "e", "a", "r", "c", "h">>,
     <<"r", "e", "d", "i", "s">>,
     <<"R", "E", "D", "I", "S">>,
     <<":", "9", "2", "0", "0">>,
     <<":", "6", "3", "7", "9">>,
     <<"c", "a", "c", "h", "e">>,
     <<".", "s", "v", "c">>,
     <<".", "c", "l", "u", "s", "t", "e", "r", ".", "l", "o", "c", "a", "l">>,
     <<"w", "w", "w", ".">>,
     <<"W", "W", "W", ".">>,
     <<"e", "x", "a", "m", "p", "l", "e", ".", "c", "o", "m">>,
     <<"p", "a", "y", "m", "e", "n", "t", "s">>,
     <<".", "p", "r", "o", "d">>,
     <<"A", "p", "i">>}

\* hostnames: up to three pieces in a row
PeerHostnames == {a \o b \o c : a \in HostPieces, b \in HostPieces, c \in HostPieces}

PeerUrls ==
    {<<>>,
     <<"h", "t", "t", "p", ":", "/", "/", "e", "s", ":", "9", "2", "0", "0", "/", "x">>,
     <<"r", "e", "d", "i", "s", ":", "/", "/", "c", "a", "c", "h", "e">>,
     <<"H", "T", "T", "P", ":", "/", "/", "E", "L", "A", "S", "T", "I", "C", "S", "E", "A", "R", "C", "H", "/">>,
     <<"h", "t", "t", "p", ":", "/", "/", "a", "p", "i", ".", "e", "x", "a", "m", "p", "l", "e", ".", "c", "o", "m", "/">>}

PeerProbes ==
    {[fn |-> "getPeerServiceName", args |-> <<h, u>>, done |-> FALSE, out |-> <<>>] :
        h \in PeerHostnames, u \in PeerUrls}

\* getPeerServiceName applied to the drawn hostname and url
ApplyGetPeerServiceName ==
    /\ probe.fn = "getPeerServiceName"
    /\ ~probe.done
    /\ probe' = [probe EXCEPT !.done = TRUE,
                              !.out = getPeerServiceName(probe.args[1], probe.args[2])]
    /\ UNCHANGED <<env, tracerProvider, providers, registered, spans, calls,
                   lastSetup, lastInvoked, legacy, lastRequest>>

\* ------------------------------------------- letter case of the inputs
\* String.prototype.toUpperCase
toUpperCase(s) ==
    [i \in 1..Len(s) |->
        IF \E k \in 1..26 : LowerCase[k] = s[i]
        THEN UpperCase[CHOOSE k \in 1..26 : LowerCase[k] = s[i]]
        ELSE s[i]]

\* hostnames of the paired runs: up to two pieces in a row
PairHostnames == {a \o b : a \in HostPieces, b \in HostPieces}

\* a hostname/url pair and the same pair in another letter case
CasePairs ==
    {<<h, u, toLowerCase(h), toLowerCase(u)>> : h \in PairHostnames, u \in PeerUrls}
    \cup
    {<<h, u, toUpperCase(h), toUpperCase(u)>> : h \in PairHostnames, u \in PeerUrls}

CaseProbes ==
    {[fn |-> "getPeerServiceNameTwice", args |-> a, done |-> FALSE, out |-> <<>>] :
        a \in CasePairs}

\* getPeerServiceName applied to both pairs
ApplyGetPeerServiceNameTwice ==
    /\ probe.fn = "getPeerServiceNameTwice"
    /\ ~probe.done
    /\ probe' = [probe EXCEPT
            !.done = TRUE,
            !.out = <<getPeerServiceName(probe.args[1], probe.args[2]),
                      getPeerServiceName(probe.args[3], probe.args[4])>>]
    /\ UNCHANGED <<env, tracerProvider, providers, registered, spans, calls,
                   lastSetup, lastInvoked, legacy, lastRequest>>

\* ------------------------------ libs/index.mjs: the older attribute hook
\* a request field that is absent and one that is '' are both falsy, and
\* the request hooks only test the fields for truthiness: both are the empty
\* text here
Absent == <<>>

\* a || b on two texts
OrText(a, b) == IF a # <<>> THEN a ELSE b

\* applyCustomAttributesOnSpan(span, request): two tests on the hostname and
\* url as they were passed, neither of which returns
applyCustomAttributesOnSpan(attributes, request) ==
    LET url == OrText(OrText(request.url, request.uri), <<>>)
        hostname == OrText(OrText(request.hostname, request.host), <<>>)
        afterElasticsearch ==
            IF MatchesElasticsearch(hostname, url)
            THEN setAttribute(setAttribute(attributes, "peer.service", ELASTICSEARCH),
                              "db.system", ELASTICSEARCH)
            ELSE attributes
    IN  IF MatchesRedis(hostname, url)
        THEN setAttribute(setAttribute(afterElasticsearch, "peer.service", REDIS),
                          "db.system", REDIS)
        ELSE afterElasticsearch

\* outgoing requests as the older hook reads them
OlderHookRequests ==
    [hostname : PairHostnames,
     host : {Absent, <<"c", "a", "c", "h", "e", ":", "6", "3", "7", "9">>},
     url : PeerUrls,
     uri : {Absent, <<"h", "t", "t", "p", ":", "/", "/", "e", "s", ":", "9", "2", "0", "0", "/", "x">>}]

OlderHookProbes ==
    {[fn |-> "peerServiceOfBothHooks", args |-> <<r>>, done |-> FALSE, out |-> <<>>] :
        r \in OlderHookRequests}

\* the older hook and getPeerServiceName applied to the same request
ApplyBothPeerServiceHooks ==
    LET request == probe.args[1] IN
    /\ probe.fn = "peerServiceOfBothHooks"
    /\ ~probe.done
    /\ probe' = [probe EXCEPT
            !.done = TRUE,
            !.out = [older |-> applyCustomAttributesOnSpan(NoAttributes, request),
                     newer |-> getPeerServiceName(
                                  OrText(request.hostname, request.host),
                                  OrText(request.url, request.uri))]]
    /\ UNCHANGED <<env, tracerProvider, providers, registered, spans, calls,
                   lastSetup, lastInvoked, legacy, lastRequest>>

\* --------------------------- the ignore hook of the earlier variants
\* !!req.url.match(/^\/metrics|\/healthz.*$/): the alternation splits the
\* pattern into ^\/metrics, anchored at the start, and \/healthz.*$, which
\* is not
regexIgnoreIncomingRequestHook(url) ==
    StartsWith(url, METRICS) \/ Includes(url, HEALTHZ)

IgnoreProbes ==
    {[fn |-> "ignoreIncomingRequestHooks", args |-> <<url>>, done |-> FALSE,
      out |-> <<>>] : url \in RequestUrls}

\* the hook of the earlier variants and the current one applied to one url
ApplyBothIgnoreHooks ==
    /\ probe.fn = "ignoreIncomingRequestHooks"
    /\ ~probe.done
    /\ probe' = [probe EXCEPT
            !.done = TRUE,
            !.out = [regex |-> regexIgnoreIncomingRequestHook(probe.args[1]),
                     prefix |-> ignoreIncomingRequestHook(probe.args[1])]]
    /\ UNCHANGED <<env, tracerProvider, providers, registered, spans, calls,
                   lastSetup, lastInvoked, legacy, lastRequest>>

\* ---------------------------------------------- HttpInstrumentation hooks
\* the first position of s that holds one of the characters, Len(s) + 1 if
\* none does
FirstOf(s, chars) ==
    IF \E i \in 1..Len(s) : s[i] \in chars
    THEN CHOOSE i \in 1..Len(s) :
            s[i] \in chars /\ \A j \in 1..(i - 1) : s[j] \notin chars
    ELSE Len(s) + 1

IsLetter(c) == \E k \in 1..26 : LowerCase[k] = c \/ UpperCase[k] = c

IsSchemeChar(c) == IsLetter(c) \/ IsDigit(c) \/ c \in {"+", "-", "."}

\* the schemes whose urls always carry a host
SpecialSchemes == {<<"h", "t", "t", "p">>, <<"h", "t", "t", "p", "s">>, <<"w", "s">>, <<"w", "s", "s">>, <<"f", "t", "p">>}

\* characters a host may not hold (an unterminated '[' among them)
ForbiddenHostChars == {" ", "[", "]", "<", ">", "^", "|", "%"}

ParseFailure == [ok |-> FALSE, hostname |-> <<>>]

\* new URL(text) without a base, and the hostname of the result: a TypeError
\* for a text with no scheme, a bad port or a bad host; the host of the
\* authority, lower-cased for the special schemes; '' when the url has no
\* authority
ParseUrl(text) ==
    LET colon == FirstOf(text, {":"})
        scheme == toLowerCase(SubSeq(text, 1, colon - 1))
        validScheme ==
            /\ colon <= Len(text)
            /\ colon > 1
            /\ IsLetter(scheme[1])
            /\ \A i \in 1..Len(scheme) : IsSchemeChar(scheme[i])
        rest == SubSeq(text, colon + 1, Len(text))
        special == scheme \in SpecialSchemes
        slashes == FirstOf(rest, {c \in {rest[i] : i \in 1..Len(rest)} : c # "/"}) - 1
        hasAuthority == special \/ slashes >= 2
        skipped == IF special THEN slashes ELSE 2
        afterSlashes == SubSeq(rest, skipped + 1, Len(rest))
        authority == SubSeq(afterSlashes, 1, FirstOf(afterSlashes, {"/", "?", "#"}) - 1)
        portColon == FirstOf(authority, {":"})
        host == SubSeq(authority, 1, portColon - 1)
        port == SubSeq(authority, portColon + 1, Len(authority))
    IN  IF ~validScheme THEN ParseFailure
        ELSE IF ~hasAuthority THEN [ok |-> TRUE, hostname |-> <<>>]
        ELSE IF \/ \E i \in 1..Len(port) : ~IsDigit(port[i])
                \/ \E i \in 1..Len(host) : host[i] \in ForbiddenHostChars
                \/ (special /\ host = <<>>)
             THEN ParseFailure
        ELSE [ok |-> TRUE,
              hostname |-> IF special THEN toLowerCase(host) ELSE host]

\* const extractHostname = (request) => ...: the options are read only in
\* the catch block of the url parse
extractHostname(request) ==
    LET hostname == OrText(OrText(request.hostname, request.host), <<>>) IN
    IF hostname = <<>> /\ request.url # <<>>
    THEN IF ParseUrl(request.url).ok THEN ParseUrl(request.url).hostname
         ELSE IF request.options.hostname # <<>> THEN request.options.hostname
         ELSE IF request.options.host # <<>> THEN request.options.host
         ELSE hostname
    ELSE hostname

\* span.kind as the OpenTelemetry API numbers it
SpanKind == [INTERNAL |-> 0, SERVER |-> 1, CLIENT |-> 2, PRODUCER |-> 3, CONSUMER |-> 4]

\* const isClientSpan = spanKind === 3
ClientKindTested == 3

GET == <<"G", "E", "T">>

\* the enrichment under if (request.headers)
HeaderAttributes(attributes, headers) ==
    LET a1 == IF headers.userAgent # <<>>
              THEN setAttribute(attributes, "http.user_agent", headers.userAgent)
              ELSE attributes
        a2 == IF headers.contentType # <<>>
              THEN setAttribute(a1, "http.request.content_type", headers.contentType)
              ELSE a1
    IN  IF headers.contentLength # <<>>
        THEN setAttribute(a2, "http.request.content_length", parseInt(headers.contentLength))
        ELSE a2

\* the span after the peer-service block of the hook
PeerAttributes(span, request) ==
    LET hostname == extractHostname(request)
        url == OrText(OrText(request.url, request.uri), <<>>)
        peerService == getPeerServiceName(hostname, url)
        port == OrText(request.port, request.options.port)
        method == toUpperCase(OrText(request.method, GET))
        a1 == setAttribute(setAttribute(span.attributes, "peer.service", peerService),
                           "net.peer.name", hostname)
        a2 == IF port # <<>> THEN setAttribute(a1, "net.peer.port", parseInt(port))
              ELSE a1
    IN  IF span.kind = ClientKindTested /\ hostname # <<>>
        THEN [span EXCEPT !.attributes = setAttribute(a2, "http.method", method),
                          !.name = method \o <<" ">> \o peerService]
        ELSE span

\* requestHook: (span, request) => ...: the span after the hook and whether
\* the hook threw; request.headers of a missing request is a TypeError
requestHook(span, request) ==
    LET peer == PeerAttributes(span, request) IN
    IF ~request.present THEN [threw |-> TRUE, span |-> peer]
    ELSE IF ~request.headers.present THEN [threw |-> FALSE, span |-> peer]
    ELSE [threw |-> FALSE,
          span |-> [peer EXCEPT
                      !.attributes = HeaderAttributes(peer.attributes, request.headers)]]

NoRequestOptions == [hostname |-> Absent, host |-> Absent, port |-> Absent]

NoHeaders ==
    [present |-> FALSE, userAgent |-> Absent, contentType |-> Absent,
     contentLength |-> Absent]

\* requestHook called with no request object: every request?.x is undefined
MissingRequest ==
    [present |-> FALSE, hostname |-> Absent, host |-> Absent, url |-> Absent,
     uri |-> Absent, port |-> Absent, method |-> Absent,
     options |-> NoRequestOptions, headers |-> NoHeaders]

RequestOptionSets ==
    {NoRequestOptions,
     [hostname |-> <<"p", "a", "y", "m", "e", "n", "t", "s", ".", "p", "r", "o", "d", ".", "s", "v", "c">>, host |-> Absent, port |-> <<"6", "3", "7", "9">>],
     [hostname |-> Absent, host |-> <<"o", "p", "t", "-", "h", "o", "s", "t">>, port |-> Absent]}

HookUrls ==
    {Absent,
     <<"h", "t", "t", "p", ":", "/", "/", "S", "e", "a", "r", "c", "h", ".", "I", "n", "t", "e", "r", "n", "a", "l", ":", "9", "2", "0", "0", "/", "x">>,
     <<"/", "r", "e", "l", "a", "t", "i", "v", "e", "/", "p", "a", "t", "h">>,
     <<"l", "o", "c", "a", "l", "h", "o", "s", "t", ":", "9", "2", "0", "0", "/", "x">>,
     <<"h", "t", "t", "p", ":", "/", "/", "[", "b", "a", "d">>,
     <<"r", "e", "d", "i", "s", ":", "/", "/", "C", "a", "c", "h", "e", "/", "0">>}

\* the requests the hook is given: ClientRequest objects and option bags
OutgoingRequests ==
    [present : {TRUE},
     hostname : {Absent, <<"A", "p", "i", ".", "e", "x", "a", "m", "p", "l", "e", ".", "c", "o", "m">>},
     host : {Absent, <<"w", "w", "w", ".", "e", "x", "a", "m", "p", "l", "e", ".", "c", "o", "m">>},
     url : HookUrls,
     uri : {Absent, <<"/", "u", "r", "i", "?", "q", "=", "r", "e", "d", "i", "s">>},
     port : {Absent, <<"9", "2", "0", "0">>},
     method : {Absent, <<"p", "o", "s", "t">>},
     options : RequestOptionSets,
     headers : {NoHeaders,
                [present |-> TRUE, userAgent |-> <<"c", "u", "r", "l">>, contentType |-> Absent,
                 contentLength |-> <<"4", "2">>]}]
    \cup {MissingRequest}

\* the requests that differ in what extractHostname reads
HostnameRequests ==
    {r \in OutgoingRequests :
        /\ r.uri = Absent /\ r.port = Absent /\ r.method = Absent
        /\ r.headers = NoHeaders}

SpanName == <<"H", "T", "T", "P">>

HookSpans ==
    [kind : 0..4, name : {SpanName}, attributes : {NoAttributes}]

ExtractProbes ==
    {[fn |-> "extractHostname", args |-> <<r>>, done |-> FALSE, out |-> <<>>] :
        r \in HostnameRequests}

RequestHookProbes ==
    {[fn |-> "requestHook", args |-> <<sp, r>>, done |-> FALSE, out |-> <<>>] :
        sp \in HookSpans, r \in OutgoingRequests}

\* extractHostname applied to the drawn request
ApplyExtractHostname ==
    /\ probe.fn = "extractHostname"
    /\ ~probe.done
    /\ probe' = [probe EXCEPT !.done = TRUE, !.out = extractHostname(probe.args[1])]
    /\ UNCHANGED <<env, tracerProvider, providers, registered, spans, calls,
                   lastSetup, lastInvoked, legacy, lastRequest>>

\* requestHook applied to the drawn span and request
ApplyRequestHook ==
    /\ probe.fn = "requestHook"
    /\ ~probe.done
    /\ probe' = [probe EXCEPT !.done = TRUE,
                              !.out = requestHook(probe.args[1], probe.args[2])]
    /\ UNCHANGED <<env, tracerProvider, providers, registered, spans, calls,
                   lastSetup, lastInvoked, legacy, lastRequest>>

\* ------------------------------------------------ IORedisInstrumentation
\* str.length > 100, str.substring(0, 100)
MaxArgLength == 100

ELLIPSIS == <<".", ".", ".">>

RECURSIVE DecimalText(_)
\* the decimal digits of a natural number
DecimalText(n) ==
    IF n < 10 THEN <<Digits[n + 1]>>
    ELSE DecimalText(n \div 10) \o <<Digits[(n % 10) + 1]>>

\* String(arg) for a string, an integer and null
StringOf(arg) ==
    IF arg.type = "string" THEN arg.text
    ELSE IF arg.type = "number"
         THEN (IF arg.n < 0 THEN <<"-">> \o DecimalText(0 - arg.n) ELSE DecimalText(arg.n))
    ELSE <<"n", "u", "l", "l">>

\* a cut that also shortens an argument of exactly 100 characters
TruncateFromLimit(str) ==
    IF Len(str) >= MaxArgLength THEN SubSeq(str, 1, MaxArgLength) \o ELLIPSIS ELSE str

\* str.length > 100 ? `${str.substring(0, 100)}...` : str
Truncate(str) ==
    IF Len(str) > MaxArgLength THEN SubSeq(str, 1, MaxArgLength) \o ELLIPSIS ELSE str

RECURSIVE Join(_)
\* args.join(' ')
Join(texts) ==
    IF texts = <<>> THEN <<>>
    ELSE IF Len(texts) = 1 THEN texts[1]
    ELSE texts[1] \o <<" ">> \o Join(Tail(texts))

\* dbStatementSerializer: (cmdName, cmdArgs) => ...
dbStatementSerializer(cmdName, cmdArgs) ==
    LET args == [i \in 1..Len(cmdArgs) |-> Truncate(StringOf(cmdArgs[i]))] IN
    cmdName \o <<" ">> \o Join(args)

\* a text of n characters that begins with tag and differs from place to
\* place
TextOf(tag, n) ==
    [i \in 1..n |-> IF i = 1 THEN tag ELSE Digits[(i % 10) + 1]]

StringArg(text) == [type |-> "string", text |-> text, n |-> 0]

\* command arguments: texts around the limit, integers and null
CommandArgs ==
    {StringArg(TextOf("k", n)) : n \in {0, 1, 99, 100, 101, 103, 104, 250}}
    \cup {StringArg(<<"a", " ", "b">>)}
    \cup {[type |-> "number", text |-> <<>>, n |-> n] : n \in {0, 42, -7}}
    \cup {[type |-> "null", text |-> <<>>, n |-> 0]}

RECURSIVE SeqsUpTo(_, _)
\* the sequences over S of length at most n
SeqsUpTo(S, n) ==
    IF n = 0 THEN {<<>>}
    ELSE SeqsUpTo(S, n - 1)
         \cup {Append(q, x) : q \in {r \in SeqsUpTo(S, n - 1) : Len(r) = n - 1}, x \in S}

SerializerProbes ==
    {[fn |-> "dbStatementSerializer", args |-> <<name, list>>, done |-> FALSE,
      out |-> <<>>] :
        name \in {<<"g", "e", "t">>, <<"H", "S", "E", "T">>},
        list \in SeqsUpTo(CommandArgs, MaxArgs)}

\* dbStatementSerializer applied to the drawn command
ApplyDbStatementSerializer ==
    /\ probe.fn = "dbStatementSerializer"
    /\ ~probe.done
    /\ probe' = [probe EXCEPT
            !.done = TRUE,
            !.out = dbStatementSerializer(probe.args[1], probe.args[2])]
    /\ UNCHANGED <<env, tracerProvider, providers, registered, spans, calls,
                   lastSetup, lastInvoked, legacy, lastRequest>>

\* ------------------------------------------------- DnsInstrumentation
\* a categorisation that knows no timeouts
ErrorTypeWithoutTimeout(code) ==
    IF code = "ENOTFOUND" THEN "NOT_FOUND"
    ELSE IF code = "ECONNREFUSED" THEN "CONNECTION_REFUSED"
    ELSE "OTHER"

\* if (error.code === 'ENOTFOUND') ... else if ... else 'OTHER'
ErrorType(code) ==
    IF code = "ENOTFOUND" THEN "NOT_FOUND"
    ELSE IF code = "ETIMEOUT" THEN "TIMEOUT"
    ELSE IF code = "ECONNREFUSED" THEN "CONNECTION_REFUSED"
    ELSE "OTHER"

\* error.code || 'UNKNOWN'
UNKNOWN_CODE == "UNKNOWN"

\* error.message || 'DNS lookup failed'
DefaultErrorMessage == "DNS lookup failed"

\* errorHook: (span, error) => { if (error) { ... } }; the result is the
\* span's attributes after the hook and whether the hook threw
errorHook(attributes, error) ==
    IF error.kind # "object"
    THEN [threw |-> FALSE, attributes |-> attributes]
    ELSE [threw |-> FALSE,
          attributes |->
            setAttribute(
              setAttribute(
                setAttribute(
                  setAttribute(attributes, "dns.error", TRUE),
                  "dns.error.code", OrElse(error.code, UNKNOWN_CODE)),
                "dns.error.message", OrElse(error.message, DefaultErrorMessage)),
              "dns.error.type", ErrorType(error.code))]

\* the errors a lookup hands to the hook: null, undefined, or an error
\* object whose code and message may be absent or empty
ErrorCodes ==
    {Undefined, "", "ENOTFOUND", "ETIMEOUT", "ECONNREFUSED", "ESERVFAIL",
     "EAI_AGAIN", "enotfound"}

ErrorMessages == {Undefined, "", "getaddrinfo ENOTFOUND search.internal"}

NoError(kind) == [kind |-> kind, code |-> Undefined, message |-> Undefined]

DnsErrors ==
    {NoError("null"), NoError("undefined")}
    \cup [kind : {"object"}, code : ErrorCodes, message : ErrorMessages]

\* the attributes the span carries when the hook runs
SpanAttributes ==
    {[k \in {} |-> Undefined],
     ("dns.hostname" :> "search.internal"),
     ("dns.hostname" :> "search.internal") @@ ("dns.error.type" :> "STALE")}

ErrorProbes ==
    {[fn |-> "errorHook", args |-> <<a, e>>, done |-> FALSE, out |-> <<>>] :
        a \in SpanAttributes, e \in DnsErrors}

\* errorHook applied to the drawn span and error
ApplyErrorHook ==
    /\ probe.fn = "errorHook"
    /\ ~probe.done
    /\ probe' = [probe EXCEPT !.done = TRUE,
                              !.out = errorHook(probe.args[1], probe.args[2])]
    /\ UNCHANGED <<env, tracerProvider, providers, registered, spans, calls,
                   lastSetup, lastInvoked, legacy, lastRequest>>

\* -------------------------------------------------------- specifications
Init ==
    /\ env \in EnvSet
    /\ tracerProvider = Null
    /\ providers = <<>>
    /\ registered = <<>>
    /\ spans = <<>>
    /\ calls = <<>>
    /\ lastSetup = NoSetup
    /\ lastInvoked = [op |-> "none", call |-> 0]
    /\ legacy = NoLegacy
    /\ lastRequest = NoRequest
    /\ probe = NoProbe

\* the module as loaded, with one hook or helper invocation drawn
InitProbe(probes) ==
    /\ env = NoEnv
    /\ tracerProvider = Null
    /\ providers = <<>>
    /\ registered = <<>>
    /\ spans = <<>>
    /\ calls = <<>>
    /\ lastSetup = NoSetup
    /\ lastInvoked = [op |-> "none", call |-> 0]
    /\ legacy = NoLegacy
    /\ lastRequest = NoRequest
    /\ probe \in probes

\* the lifecycle: setupTracing, spans, stopTracing and the provider's
\* shutdown, in every interleaving the event loop allows
InitLifecycle == Init /\ env = NoEnv

Next ==
    \/ \E options \in LifecycleOptions : setupTracing(options)
    \/ \E options \in LifecycleOptions : setupTracingThrows(options)
    \/ \E p \in 1..Len(providers) : EndSpan(p)
    \/ \E p \in 1..Len(providers) : TimerExport(p)
    \/ stopTracingNoProvider
    \/ stopTracingBegin
    \/ \E p \in 1..Len(providers), ok \in BOOLEAN : ShutdownSettle(p, ok)
    \/ \E c \in 1..Len(calls) : stopTracingResume(c)

Spec == InitLifecycle /\ [][Next]_vars

\* configuration: setupTracing under every environment and option set, in
\* the options-object API and in the positional API
NextSetup ==
    \/ \E options \in SetupOptions : setupTracing(options)
    \/ \E options \in SetupOptions : setupTracingThrows(options)
    \/ \E serviceName \in {"test-service", "checkout"},
          appName \in {Undefined, "test-app"},
          endpoint \in {Undefined, "custom-endpoint", "https://your-collector-endpoint"} :
            setupTracingPositional(serviceName, appName, endpoint)

SpecSetup == Init /\ [][NextSetup]_vars

\* setupTracing with a library call that throws part-way through
NextPartial ==
    \/ \E options \in SetupOptions : setupTracing(options)
    \/ \E options \in SetupOptions : setupTracingThrows(options)
    \/ \E options \in SetupOptions, step \in LateSteps, n \in AdapterCounts :
            setupTracingFailsAt(options, step, n)

SpecPartial == Init /\ [][NextPartial]_vars

\* two runs of a hook, or two variants of a hook, on related inputs
InitRelate == InitProbe(CaseProbes \cup OlderHookProbes \cup IgnoreProbes)

NextRelate ==
    \/ ApplyGetPeerServiceNameTwice
    \/ ApplyBothPeerServiceHooks
    \/ ApplyBothIgnoreHooks

SpecRelate == InitRelate /\ [][NextRelate]_vars

\* the hooks of the HTTP adapter, each applied to a drawn span and request
InitRequest == InitProbe(ExtractProbes \cup RequestHookProbes)

NextRequest ==
    \/ ApplyExtractHostname
    \/ ApplyRequestHook

SpecRequest == InitRequest /\ [][NextRequest]_vars

\* configuration in depth: every environment, and options that vary the
\* inputs, the concurrency limit and the adapter flags
InitConfig ==
    /\ env \in ConfigEnvSet
    /\ tracerProvider = Null
    /\ providers = <<>>
    /\ registered = <<>>
    /\ spans = <<>>
    /\ calls = <<>>
    /\ lastSetup = NoSetup
    /\ lastInvoked = [op |-> "none", call |-> 0]
    /\ legacy = NoLegacy
    /\ lastRequest = NoRequest
    /\ probe = NoProbe

NextConfig ==
    \/ \E options \in ConfigOptions : setupTracing(options)
    \/ \E options \in ConfigOptions : setupTracingThrows(options)

SpecConfig == InitConfig /\ [][NextConfig]_vars

\* the request hooks, exercised after one setupTracing call with a valid
\* config
HookOptions ==
    [hostname : {Undefined},
     serviceName : {"checkout"},
     url : {"http://localhost:4317"},
     concurrencyLimit : {NoLimit},
     enableFsInstrumentation : {Undefined, "true"},
     enableDnsInstrumentation : {Undefined, "true"}]

NextHook ==
    \/ \E options \in HookOptions : providers = <<>> /\ setupTracing(options)
    \/ \E a \in 1..Len(registered), url \in RequestUrls : IncomingRequest(a, url)

SpecHook == InitLifecycle /\ [][NextHook]_vars

\* the hooks and helpers of setupTracing, each applied to drawn arguments
InitPure == InitProbe(PeerProbes \cup ErrorProbes \cup SerializerProbes)

NextPure ==
    \/ ApplyGetPeerServiceName
    \/ ApplyErrorHook
    \/ ApplyDbStatementSerializer

SpecPure == InitPure /\ [][NextPure]_vars

\* ================================================================ claims
LiveProviders == {p \in 1..Len(providers) : providers[p].state # "shutdown"}

\* C1 (as claimed): once a stopTracing call has completed, the provider
\* singleton is null, whether the provider's shutdown succeeded or failed.
C1_SingletonClearedAfterStop ==
    \A c \in 1..Len(calls) : calls[c].pc = "done" => calls[c].after = Null

\* C2 (as claimed): a stopTracing call invoked right after a completed
\* stopTracing call, with no setupTracing in between, takes the 'no
\* provider' path, does not throw and invokes no shutdown.
C2_SecondStopIsNoOp ==
    \A c \in 1..Len(calls) :
        calls[c].prev # 0 =>
            /\ calls[c].path = "noProvider"
            /\ calls[c].result # "rejected"

\* C3 (as claimed): when the provider's shutdown fails, the promise returned
\* by stopTracing rejects.
C3_ShutdownFailurePropagates ==
    \A c \in 1..Len(calls) :
        (/\ calls[c].pc = "done"
         /\ calls[c].path = "shutdown"
         /\ providers[calls[c].prov].outcome = "failed")
        => calls[c].result = "rejected"

MissingRequired(cfg) == cfg.serviceName = Undefined \/ cfg.url = Undefined

\* C4 (as claimed): a setupTracing call whose serviceName or url is missing
\* from both the options and the environment throws and leaves the
\* singleton as it was.
C4_MissingConfigThrows ==
    (lastSetup.called /\ MissingRequired(lastSetup.config))
        => (lastSetup.threw /\ lastSetup.after = lastSetup.before)

\* C5 (as claimed): at most one provider that has been constructed and not
\* yet shut down exists.
C5_AtMostOneLiveProvider == Cardinality(LiveProviders) <= 1

\* C5 (amended): only the provider the singleton refers to can be shut down;
\* a provider that is no longer the singleton and on which no shutdown was
\* invoked stays as it is (constructed, not shut down) and never becomes the
\* singleton again, so several live providers can exist at once.
C5_ReplacedProviderStaysLive ==
    [][\A p \in 1..Len(providers) :
          (p # tracerProvider /\ providers[p].shutdownCalls = 0)
              => (providers'[p] = providers[p] /\ tracerProvider' # p)]_vars

\* a stopTracing has shut down the singleton's provider while the provider
\* it replaced is still live
C5_Witness ==
    /\ Len(providers) >= 2
    /\ tracerProvider = 2
    /\ providers[2].state = "shutdown"
    /\ providers[1].state = "active"

C7_StopBeforeSetupIsNoOp ==
    \A c \in 1..Len(calls) :
        ~calls[c].everSetup =>
            /\ calls[c].pc = "done"
            /\ calls[c].path = "noProvider"
            /\ calls[c].result = "resolved"
            /\ calls[c].prov = Null
            /\ calls[c].after = Null

C7_Witness ==
    \E c \in 1..Len(calls) : ~calls[c].everSetup /\ calls[c].pc = "done"

ValidConfig(cfg) ==
    cfg.serviceName # Undefined /\ cfg.url \in WellFormedUrls

\* C8: a setupTracing call whose serviceName and url are present and
\* well-formed does not throw and returns a non-null tracer, and so does
\* every call of the positional API.
C8_ValidConfigReturnsTracer ==
    /\ (lastSetup.called /\ ValidConfig(lastSetup.config)) =>
          (/\ ~lastSetup.threw
           /\ lastSetup.tracer # NullTracer
           /\ lastSetup.tracer.provider # Null)
    /\ legacy.called =>
          (legacy.tracer # NullTracer /\ legacy.tracer.provider # Null)

C8_Witness ==
    /\ lastSetup.called
    /\ ValidConfig(lastSetup.config)
    /\ lastSetup.config.serviceName = "env-service"
    /\ legacy.called

\* C9: a setupTracing call that builds a provider makes it the singleton
\* and changes no provider built before, so no shutdown is invoked on the
\* previous one.
C9_SetupReplacesWithoutShutdown ==
    [][Len(providers') > Len(providers) =>
          /\ tracerProvider' = Len(providers')
          /\ \A p \in 1..Len(providers) : providers'[p] = providers[p]]_vars

C9_Witness ==
    /\ Len(providers) >= 2
    /\ tracerProvider = Len(providers)
    /\ lastSetup.before = 1
    /\ lastSetup.after = 2
    /\ providers[1].shutdownCalls = 0

BeginsWith(url, prefix) ==
    \E n \in 0..Len(url) : url = prefix \o SubSeq(url, n + 1, Len(url))

HookAdapters == {"http", "express", "connect"}

\* C10: the HTTP, Express and Connect adapters are all given the one ignore
\* predicate, and it is true exactly for the urls that begin with
\* '/metrics' or '/healthz': true for '/healthz/live', false for
\* '/api/health' and for a url that holds a prefix later in the path.
C10_IgnorePredicate ==
    /\ \A a \in 1..Len(registered) :
          registered[a].kind \in HookAdapters
              => registered[a].ignoreHook = "ignoreIncomingRequestHook"
    /\ (lastRequest.seen /\ lastRequest.kind \in HookAdapters) =>
          /\ lastRequest.ignored <=>
                (BeginsWith(lastRequest.url, METRICS)
                    \/ BeginsWith(lastRequest.url, HEALTHZ))
          /\ lastRequest.url = HEALTHZ \o <<"/", "l", "i", "v", "e">>
                => lastRequest.ignored
          /\ lastRequest.url = <<"/", "a", "p", "i">> \o <<"/", "h", "e", "a", "l", "t", "h">>
                => ~lastRequest.ignored
          /\ lastRequest.url = <<"/", "a", "p", "i">> \o HEALTHZ
                => ~lastRequest.ignored

C10_Witness ==
    /\ lastRequest.seen
    /\ lastRequest.kind = "connect"
    /\ lastRequest.url = <<"/", "a", "p", "i">> \o HEALTHZ
    /\ ~lastRequest.ignored

PeerDone == probe.fn = "getPeerServiceName" /\ probe.done
PeerHost == probe.args[1]
PeerUrl == probe.args[2]

Prefix(s, n) == SubSeq(s, 1, IF Len(s) < n THEN Len(s) ELSE n)

\* s holds sub somewhere, letter case aside
HoldsText(s, sub) ==
    LET low == toLowerCase(s) IN
    \E i \in 0..(Len(s) - Len(sub)) :
        \A k \in 1..Len(sub) : low[i + k] = sub[k]

PairNamesElasticsearch ==
    \E s \in {PeerHost, PeerUrl}, t \in {ELASTICSEARCH, PORT9200} : HoldsText(s, t)

PairNamesRedis ==
    \E s \in {PeerHost, PeerUrl}, t \in {REDIS, PORT6379} : HoldsText(s, t)

\* C11: getPeerServiceName gives 'elasticsearch' for a hostname or url that
\* holds 'elasticsearch' or ':9200', else 'redis' for one that holds 'redis'
\* or ':6379', else the first dot-segment of a hostname that holds '.svc',
\* else a 'www.' hostname without that prefix; the four examples of the
\* specification come out as stated.
C11_PeerServicePatterns ==
    PeerDone =>
        /\ PairNamesElasticsearch => probe.out = ELASTICSEARCH
        /\ (~PairNamesElasticsearch /\ PairNamesRedis) => probe.out = REDIS
        /\ (~PairNamesElasticsearch /\ ~PairNamesRedis /\ HoldsText(PeerHost, DOTSVC)) =>
              /\ ~Includes(probe.out, <<".">>)
              /\ StartsWith(toLowerCase(PeerHost), probe.out \o <<".">>)
        /\ (/\ ~PairNamesElasticsearch /\ ~PairNamesRedis
            /\ ~HoldsText(PeerHost, DOTSVC)
            /\ HoldsText(Prefix(PeerHost, 4), WWWDOT)) =>
              WWWDOT \o probe.out = toLowerCase(PeerHost)
        /\ (PeerHost = <<"s", "e", "a", "r", "c", "h", ".", "e", "l", "a", "s", "t", "i", "c", "s", "e", "a", "r", "c", "h", ".", "s", "v", "c", ".", "c", "l", "u", "s", "t", "e", "r", ".", "l", "o", "c", "a", "l">> /\ PeerUrl = <<>>)
              => probe.out = <<"e", "l", "a", "s", "t", "i", "c", "s", "e", "a", "r", "c", "h">>
        /\ (PeerHost = <<"c", "a", "c", "h", "e", ":", "6", "3", "7", "9">> /\ PeerUrl = <<>>)
              => probe.out = <<"r", "e", "d", "i", "s">>
        /\ (PeerHost = <<"w", "w", "w", ".", "e", "x", "a", "m", "p", "l", "e", ".", "c", "o", "m">> /\ PeerUrl = <<>>)
              => probe.out = <<"e", "x", "a", "m", "p", "l", "e", ".", "c", "o", "m">>
        /\ (PeerHost = <<"p", "a", "y", "m", "e", "n", "t", "s", ".", "p", "r", "o", "d", ".", "s", "v", "c">> /\ PeerUrl = <<>>)
              => probe.out = <<"p", "a", "y", "m", "e", "n", "t", "s">>

C11_Witness ==
    /\ PeerDone
    /\ PeerHost = <<"c", "a", "c", "h", "e", ":", "6", "3", "7", "9">>
    /\ PeerUrl = <<>>
    /\ probe.out = REDIS

\* C12: when several patterns match, the first in the order elasticsearch,
\* redis, '.svc' decides: elasticsearch and redis together give
\* 'elasticsearch', redis and '.svc' together give 'redis'.
C12_FirstPatternWins ==
    PeerDone =>
        /\ (PairNamesElasticsearch /\ PairNamesRedis) => probe.out = ELASTICSEARCH
        /\ (PairNamesRedis /\ ~PairNamesElasticsearch /\ HoldsText(PeerHost, DOTSVC))
              => probe.out = REDIS

C12_Witness ==
    /\ PeerDone
    /\ PeerHost = <<"r", "e", "d", "i", "s">> \o <<"E", "l", "a", "s", "t", "i", "c", "S", "e", "a", "r", "c", "h">> \o <<".", "s", "v", "c">>
    /\ probe.out = ELASTICSEARCH

\* C13: a non-empty hostname that, with its url, matches none of the
\* patterns comes back exactly as it was given, letter case included.
C13_UnmatchedHostnameReturnedRaw ==
    (/\ PeerDone
     /\ PeerHost # <<>>
     /\ ~PairNamesElasticsearch
     /\ ~PairNamesRedis
     /\ ~HoldsText(PeerHost, DOTSVC)
     /\ ~HoldsText(Prefix(PeerHost, 4), WWWDOT))
        => probe.out = PeerHost

C13_Witness ==
    /\ PeerDone
    /\ PeerHost = <<"A", "p", "i">> \o <<".", "p", "r", "o", "d">>
    /\ probe.out = PeerHost

SetupDone == lastSetup.called /\ ~lastSetup.threw

FixedAdapters ==
    {"http", "express", "pino", "connect", "aws-sdk", "ioredis", "elasticsearch"}

CountKind(list, kind) == Cardinality({i \in 1..Len(list) : list[i].kind = kind})

\* C14: the adapter list a setupTracing call registers holds each of the
\* seven fixed adapters exactly once, the DNS adapter exactly when
\* enableDnsInstrumentation is passed as true and the filesystem adapter
\* exactly when enableFsInstrumentation is passed as true, and nothing else;
\* an omitted flag counts as false.
C14_AdapterList ==
    SetupDone =>
        LET list == lastSetup.instrumentations
            dns == lastSetup.options.enableDnsInstrumentation = "true"
            fs == lastSetup.options.enableFsInstrumentation = "true"
        IN  /\ \A kind \in FixedAdapters : CountKind(list, kind) = 1
            /\ CountKind(list, "dns") = (IF dns THEN 1 ELSE 0)
            /\ CountKind(list, "fs") = (IF fs THEN 1 ELSE 0)
            /\ Len(list) = 7 + (IF dns THEN 1 ELSE 0) + (IF fs THEN 1 ELSE 0)
            /\ Len(registered) >= Len(list)
            /\ SubSeq(registered, Len(registered) - Len(list) + 1, Len(registered)) = list

C14_Witness ==
    /\ SetupDone
    /\ lastSetup.options.enableFsInstrumentation = "true"
    /\ lastSetup.options.enableDnsInstrumentation = Undefined
    /\ CountKind(lastSetup.instrumentations, "fs") = 1
    /\ CountKind(lastSetup.instrumentations, "dns") = 0

\* C15 (as claimed): the concurrencyLimit a completed setupTracing call
\* hands to the exporter is 10 when the option is omitted and always an
\* integer from 1 to 100.
C15_ConcurrencyLimitInRange ==
    SetupDone =>
        /\ ~lastSetup.options.concurrencyLimit.defined
              => lastSetup.exportOptions.concurrencyLimit = Num(10)
        /\ ~lastSetup.exportOptions.concurrencyLimit.nan
        /\ lastSetup.exportOptions.concurrencyLimit.n \in 1..100

\* C16 (as claimed): on every key that both the explicit config fields and
\* the detected attributes carry, the resource holds the explicit value.
C16_ExplicitFieldsWin ==
    SetupDone =>
        \A k \in DOMAIN ExplicitResource(lastSetup.config) :
            lastSetup.resource[k] = ExplicitResource(lastSetup.config)[k]

IsSet(v) == v # Undefined

C18_ShutdownInvokedAtMostOnce ==
    \A p \in 1..Len(providers) : providers[p].shutdownCalls <= 1

ErrorHookDone == probe.fn = "errorHook" /\ probe.done

HookSpan == probe.args[1]

HookError == probe.args[2]

\* C19: the DNS error hook never throws; for an error object it leaves on
\* the span dns.error = true, dns.error.code = the error's code ('UNKNOWN'
\* when the code is absent) and dns.error.type = NOT_FOUND for ENOTFOUND,
\* TIMEOUT for ETIMEOUT, CONNECTION_REFUSED for ECONNREFUSED and OTHER for
\* every other code; for a null error the span's attributes are unchanged.
C19_ErrorHookRecordsOnSpan ==
    ErrorHookDone =>
        LET after == probe.out.attributes
            code == HookError.code
        IN  /\ ~probe.out.threw
            /\ HookError.kind \in {"null", "undefined"} => after = HookSpan
            /\ HookError.kind = "object" =>
                /\ {"dns.error", "dns.error.code", "dns.error.type"} \subseteq DOMAIN after
                /\ after["dns.error"] = TRUE
                /\ code = Undefined => after["dns.error.code"] = "UNKNOWN"
                /\ code \notin {Undefined, ""} => after["dns.error.code"] = code
                /\ code = "ENOTFOUND" => after["dns.error.type"] = "NOT_FOUND"
                /\ code = "ETIMEOUT" => after["dns.error.type"] = "TIMEOUT"
                /\ code = "ECONNREFUSED" => after["dns.error.type"] = "CONNECTION_REFUSED"
                /\ code \notin {"ENOTFOUND", "ETIMEOUT", "ECONNREFUSED"}
                      => after["dns.error.type"] = "OTHER"
                /\ \A k \in DOMAIN HookSpan :
                      k \notin {"dns.error", "dns.error.code", "dns.error.type",
                                "dns.error.message"} => after[k] = HookSpan[k]

C19_Witness ==
    /\ ErrorHookDone
    /\ HookError.kind = "object"
    /\ HookError.code = "ETIMEOUT"
    /\ "dns.error.type" \in DOMAIN HookSpan
    /\ probe.out.attributes["dns.error.type"] = "TIMEOUT"

Constructed(class) ==
    Cardinality({i \in 1..Len(legacy.constructed) : legacy.constructed[i] = class})

\* C20: a call of the positional setupTracing(serviceName, appName,
\* endpoint) constructs one tracer provider, one batch span processor and
\* one exporter, and the exporter's options carry the first argument as
\* serviceName and the endpoint argument as url, null when none is given,
\* whatever the environment holds.
C20_PositionalBuildsOneOfEach ==
    legacy.called =>
        /\ Constructed("NodeTracerProvider") = 1
        /\ Constructed("BatchSpanProcessor") = 1
        /\ Constructed("OTLPTraceExporter") = 1
        /\ legacy.providersBuilt = 1
        /\ legacy.processorsBuilt = 1
        /\ legacy.exportersBuilt = 1
        /\ legacy.exportOptions.serviceName = legacy.serviceName
        /\ legacy.endpoint = Undefined => legacy.exportOptions.url = "null"
        /\ legacy.endpoint # Undefined => legacy.exportOptions.url = legacy.endpoint

C20_Witness ==
    /\ legacy.called
    /\ legacy.serviceName = "test-service"
    /\ legacy.endpoint = Undefined
    /\ env.ENDPOINT # Undefined
    /\ legacy.exportOptions = [serviceName |-> "test-service", url |-> "null"]

\* C21 (as claimed): whatever step of setupTracing fails, the exporter or
\* provider construction, the provider registration or the instrumentation
\* registration, the singleton is what it was before the call.
C21_FailedSetupLeavesSingleton ==
    (lastSetup.called /\ lastSetup.threw) =>
        /\ lastSetup.after = lastSetup.before
        /\ tracerProvider = lastSetup.before

HasAdaptersOf(adapters, p) ==
    \A kind \in FixedAdapters :
        \E i \in 1..Len(adapters) : adapters[i].kind = kind /\ adapters[i].provider = p

\* C22: no step of a stopTracing call changes the registered adapters, no
\* step at all removes one, and a setupTracing call adds those of its new
\* provider: after setupTracing, stopTracing, setupTracing the adapters of
\* the first call are registered alongside those of the second.
C22_StopLeavesAdapters ==
    [][/\ calls' # calls => registered' = registered
       /\ Len(registered') >= Len(registered)
       /\ SubSeq(registered', 1, Len(registered)) = registered
       /\ Len(providers') > Len(providers)
             => HasAdaptersOf(registered', Len(providers'))]_vars

C22_Witness ==
    /\ Len(providers) = 2
    /\ tracerProvider = 2
    /\ \E c \in 1..Len(calls) :
          calls[c].pc = "done" /\ calls[c].prov = 1 /\ calls[c].after = 1
    /\ HasAdaptersOf(registered, 1)
    /\ HasAdaptersOf(registered, 2)

C28_PeerServiceNeverEmpty ==
    PeerDone => probe.out # <<>>

CaseDone == probe.fn = "getPeerServiceNameTwice" /\ probe.done

\* the first pair matches one of the four patterns, letter case aside
PairMatchesPattern ==
    \/ PairNamesElasticsearch
    \/ PairNamesRedis
    \/ HoldsText(PeerHost, DOTSVC)
    \/ HoldsText(Prefix(PeerHost, 4), WWWDOT)

NameOrUnknown(hostname) == IF hostname = <<>> THEN UNKNOWN ELSE hostname

\* C29 (as claimed): two hostname/url pairs that differ only in letter case
\* yield the same peer-service name.
C29_CaseInsensitive ==
    CaseDone => probe.out[1] = probe.out[2]

\* C29 (amended): two hostname/url pairs that differ only in letter case
\* yield the same name when they match one of the four patterns; when they
\* match none, each yields its own hostname as it was passed, so the two
\* names are equal only up to letter case.
C29_CaseInsensitiveWhenMatched ==
    CaseDone =>
        /\ toLowerCase(probe.args[1]) = toLowerCase(probe.args[3])
        /\ toLowerCase(probe.args[2]) = toLowerCase(probe.args[4])
        /\ PairMatchesPattern => probe.out[1] = probe.out[2]
        /\ ~PairMatchesPattern =>
              /\ probe.out[1] = NameOrUnknown(probe.args[1])
              /\ probe.out[2] = NameOrUnknown(probe.args[3])
        /\ toLowerCase(probe.out[1]) = toLowerCase(probe.out[2])

C29_Witness ==
    /\ CaseDone
    /\ probe.args[1] = <<"E", "l", "a", "s", "t", "i", "c", "S", "e", "a", "r", "c", "h", ".", "s", "v", "c">>
    /\ probe.args[3] = <<"e", "l", "a", "s", "t", "i", "c", "s", "e", "a", "r", "c", "h", ".", "s", "v", "c">>
    /\ probe.out[1] = ELASTICSEARCH
    /\ probe.out[2] = ELASTICSEARCH

BothHooksDone == probe.fn = "peerServiceOfBothHooks" /\ probe.done

RequestHostname == OrText(probe.args[1].hostname, probe.args[1].host)

RequestUrl == OrText(probe.args[1].url, probe.args[1].uri)

\* C25 (as claimed): for every request whose hostname or url holds an
\* elasticsearch or redis pattern, letter case aside, the older hook
\* applyCustomAttributesOnSpan sets the peer.service that getPeerServiceName
\* returns.
C25_OlderHookAgrees ==
    (/\ BothHooksDone
     /\ \E t \in {RequestHostname, RequestUrl},
           sub \in {ELASTICSEARCH, PORT9200, REDIS, PORT6379} : HoldsText(t, sub)) =>
        /\ "peer.service" \in DOMAIN probe.out.older
        /\ probe.out.older["peer.service"] = probe.out.newer

\* C26 (as claimed): the regex-based ignore hook of the earlier variants
\* and the prefix-based hook of the current variant return the same result
\* for every request url.
C26_IgnoreHooksAgree ==
    (probe.fn = "ignoreIncomingRequestHooks" /\ probe.done) =>
        probe.out.regex = probe.out.prefix

ExtractDone == probe.fn = "extractHostname" /\ probe.done

ExtractRequest == probe.args[1]

\* one of the five sources of a hostname is usable
HasUsableSource(r) ==
    \/ r.hostname # <<>>
    \/ r.host # <<>>
    \/ (r.url # <<>> /\ ParseUrl(r.url).ok /\ ParseUrl(r.url).hostname # <<>>)
    \/ r.options.hostname # <<>>
    \/ r.options.host # <<>>

\* C27 (as claimed): extractHostname returns a non-empty hostname whenever
\* request.hostname, request.host, a parseable request.url,
\* request.options.hostname or request.options.host is usable, and a request
\* that carries only options.hostname yields that options.hostname.
C27_HostnameFromAnySource ==
    ExtractDone =>
        /\ HasUsableSource(ExtractRequest) => probe.out # <<>>
        /\ (/\ ExtractRequest.hostname = <<>>
            /\ ExtractRequest.host = <<>>
            /\ ExtractRequest.url = <<>>
            /\ ExtractRequest.options.hostname # <<>>)
              => probe.out = ExtractRequest.options.hostname

RequestHookDone == probe.fn = "requestHook" /\ probe.done

PeerKeys == {"peer.service", "net.peer.name", "net.peer.port", "http.method"}

\* the span is an outgoing one with a hostname to name the peer by
IsOutgoingWithHostname ==
    /\ probe.args[1].kind = SpanKind.CLIENT
    /\ extractHostname(probe.args[2]) # <<>>

\* C23 (as claimed): the HTTP request hook sets peer.service, net.peer.name
\* and http.method (and net.peer.port) and renames the span for a CLIENT-kind
\* span whose extracted hostname is non-empty; for every other span it sets
\* none of these attributes and leaves the span name unchanged.
C23_PeerAttributesOnlyForClientSpans ==
    RequestHookDone =>
        LET before == probe.args[1]
            after == probe.out.span
        IN  /\ IsOutgoingWithHostname =>
                /\ {"peer.service", "net.peer.name", "http.method"}
                      \subseteq DOMAIN after.attributes
                /\ after.name # before.name
            /\ ~IsOutgoingWithHostname =>
                /\ PeerKeys \cap DOMAIN after.attributes = {}
                /\ after.name = before.name

SerializerDone == probe.fn = "dbStatementSerializer" /\ probe.done

\* the number of characters argument i contributes to the statement
Contribution(i) ==
    LET n == Len(StringOf(probe.args[2][i])) IN IF n > 100 THEN 103 ELSE n

RECURSIVE ArgStart(_)
\* the place in the statement where argument i begins
ArgStart(i) ==
    IF i = 1 THEN Len(probe.args[1]) + 2
    ELSE ArgStart(i - 1) + Contribution(i - 1) + 1

\* C30: the statement is the command name, a space, and the arguments in
\* their order with one space between two of them; an argument of at most
\* 100 characters stands unchanged, a longer one as its first 100 characters
\* followed by '...', so no argument contributes more than 103 characters.
C30_SerializerBoundsArguments ==
    SerializerDone =>
        LET name == probe.args[1]
            list == probe.args[2]
            k == Len(list)
            out == probe.out
        IN  /\ SubSeq(out, 1, Len(name)) = name
            /\ out[Len(name) + 1] = " "
            /\ Len(out) = IF k = 0 THEN Len(name) + 1
                          ELSE ArgStart(k) + Contribution(k) - 1
            /\ \A i \in 1..k :
                LET text == StringOf(list[i])
                    from == ArgStart(i)
                    piece == SubSeq(out, from, from + Contribution(i) - 1)
                IN  /\ Contribution(i) <= 103
                    /\ Len(text) <= 100 => piece = text
                    /\ Len(text) > 100 =>
                          /\ SubSeq(piece, 1, 100) = SubSeq(text, 1, 100)
                          /\ SubSeq(piece, 101, 103) = <<".", ".", ".">>
                    /\ i < k => out[from + Contribution(i)] = " "

C30_Witness ==
    /\ SerializerDone
    /\ Len(probe.args[2]) = 2
    /\ Len(StringOf(probe.args[2][1])) = 250
    /\ Len(StringOf(probe.args[2][2])) = 100
    /\ Len(probe.out) = Len(probe.args[1]) + 1 + 103 + 1 + 100

====
